---- MODULE Spec2Model ----
(***************************************************************************)
(* Model of the instructional notebooks of the repository.  Each notebook  *)
(* is an independent, linear sequence of cells; nb selects the notebook a  *)
(* behaviour runs and pc is the position inside it.                        *)
(*                                                                         *)
(* Floating-point numbers are modelled as fixed-point integers counted in  *)
(* units of 1/Scale; every arithmetic operation rounds its exact result to *)
(* the nearest representable number (ties to even).  float64 keeps every   *)
(* unit, float32 (the type jax.device_put gives an array when x64 is not   *)
(* enabled) keeps only the multiples of Q32.                               *)
(***************************************************************************)
EXTENDS Integers, Sequences, FiniteSets, TLC

\* ------------------------------------------------------------------------
\* Bounds of the model
\* ------------------------------------------------------------------------
MaxN == 2
MaxIter == 5
MaxRows == 3
MaxValue == 2
MaxChunk == 3
MaxCoef == 4
MaxX == 3

\* fixed-point resolution of the float64 model and quantum of the float32 one
Scale == 10 * 10
Q32 == 2 * 5

Notebooks == {"JobSearch_Jax", "BigDataTechniques", "RootFinding", "ParamToolsDemo",
              "SQL_in_Python", "DaskDataFrames"}

RECURSIVE SumTo(_, _)
\* sum of f[0] .. f[k]
SumTo(f, k) == IF k < 0 THEN 0 ELSE f[k] + SumTo(f, k - 1)

Abs(x) == IF x < 0 THEN -x ELSE x

Max2(x, y) == IF x >= y THEN x ELSE y

RECURSIVE MaxTo(_, _)
\* largest of f[0] .. f[k]
MaxTo(f, k) == IF k = 0 THEN f[0] ELSE Max2(f[k], MaxTo(f, k - 1))

\* a / b rounded to the nearest integer, ties to even (b > 0)
RoundDiv(a, b) ==
    LET q == a \div b
        r == a % b
    IN  IF 2 * r < b THEN q
        ELSE IF 2 * r > b THEN q + 1
        ELSE IF q % 2 = 0 THEN q ELSE q + 1

\* float64 product and quotient of two fixed-point numbers
Mul64(x, y) == RoundDiv(x * y, Scale)
Div64(x, y) == RoundDiv(x * Scale, y)

\* conversion of a float64 to float32, and float32 product and quotient
F32(x) == RoundDiv(x, Q32) * Q32
Mul32(x, y) == F32(RoundDiv(x * y, Scale))
Div32(x, y) == F32(RoundDiv(x * Scale, y))

\* ------------------------------------------------------------------------
\* JobSearch_Jax.ipynb
\* ------------------------------------------------------------------------
VARIABLES nb, pc,
          args, beta, v_tol, max_iter, wages, p, b,
          V, V_prev, v_dist, iter,
          wages_j, p_j, b_j, V_j, V_j_prev, v_dist_j, iter_j

vars_js == <<args, beta, v_tol, max_iter, wages, p, b, V, V_prev, v_dist, iter,
             wages_j, p_j, b_j, V_j, V_j_prev, v_dist_j, iter_j>>


\* BigDataTechniques.ipynb: the rows of the export_value column of DATA_FILE, the
\* locals of chunked_data and what full_data and chunked_data printed
VARIABLES DATA_FILE, chunksize, total, count, rows_read, first_chunk,
          printed_full, printed_chunked

\* the frame read with nrows, its downcast copy and their two summaries
VARIABLES df, df2, described

vars_df == <<df, df2, described>>

vars_bd == <<DATA_FILE, chunksize, total, count, rows_read, first_chunk,
             printed_full, printed_chunked, vars_df>>

\* RootFinding.ipynb: the cost parameters, the analytical solution, and the last
\* point at which FOC_AC and avg_cost were called with the values they returned
VARIABLES params, x_hat, x, error, ac

vars_rf == <<params, x_hat, x, error, ac>>

\* ParamToolsDemo.ipynb: the tax_func_type of usa_params, the revision passed to
\* update_specifications, the exception the last cell raised, and the
\* standard_deduction of the TaxParams instance with the year being extended
VARIABLES tax_func_type, revision, raised, standard_deduction, year

\* the default parameters ogcore gives, the objects of the kernel (heap) with the
\* objects og_params, usa_params and zaf_params name (0: not bound), the
\* position of the loop over the cit rates and what the last cell printed
VARIABLES og_defaults, heap, og_params, usa_params, zaf_params, r_pos, printed

vars_og == <<og_defaults, heap, og_params, usa_params, zaf_params, r_pos, printed>>

\* the names bound in the kernel and the NameErrors raised so far
VARIABLES names, name_errors

vars_nm == <<names, name_errors>>

vars_pt == <<tax_func_type, revision, raised, standard_deduction, year, vars_og, vars_nm>>

\* The SQL example of BigDataTechniques.ipynb (marked as not working in the
\* notebook: it runs where wrds and companyid_list are available): the rows the
\* WRDS tables join to, the company ids, the loop variables year and companyid
\* (as a position in companyid_list), the last query result and df_list
VARIABLES db, companyid_list, sql_year, sql_pos, data, df_list

vars_sql == <<db, companyid_list, sql_year, sql_pos, data, df_list>>

\* The notebook on Dask DataFrames (src/unnamed/part_000): the rows of DATA_FILE2
\* and of trade_data_2022.csv, the entries of DATA_DIR written by the notebook,
\* the frames of the cell that merges on index, and the error the clean-up cell
\* ended in
VARIABLES DATA_FILE2, trade_data_2022, DATA_DIR,
          trade_data, partner_data, trade_data2, partner_data2, merged, os_error

vars_dk == <<DATA_FILE2, trade_data_2022, DATA_DIR,
             trade_data, partner_data, trade_data2, partner_data2, merged, os_error>>

vars == <<nb, pc, vars_js, vars_bd, vars_rf, vars_pt, vars_sql, vars_dk>>

\* the values of the keyword arguments the model draws from
Thetas == {RoundDiv(3 * Scale, 10)}
Betas == {RoundDiv(Scale, 2), RoundDiv(9 * Scale, 10)}
VTols == {0, 1, 5 * Scale, 10 * Scale}
WMins == {1}
WMaxs == {3}

\* density values over the grid: flat, rising and falling
Pdfs(n) == {[i \in 0..n |-> 1], [i \in 0..n |-> i + 1], [i \in 0..n |-> n + 1 - i]}

\* np.linspace(w_min, w_max, n + 1): start + i * step, the last point set to stop
linspace(w_min, w_max, n) ==
    LET step == RoundDiv((w_max - w_min) * Scale, n)
    IN  [i \in 0..n |-> IF i = n THEN w_max * Scale ELSE w_min * Scale + i * step]

\* p = p / p.sum(): the density values normalised over the truncated grid
normalize(pdf, n) == [i \in 0..n |-> Div64(pdf[i] * Scale, SumTo(pdf, n) * Scale)]

\* expected_wage = np.sum(wages * p); b = theta * expected_wage
benefit(theta, w, pr, n) == Mul64(theta, SumTo([i \in 0..n |-> Mul64(w[i], pr[i])], n))

\* Tv taking the smaller of the two values
Tv_min(Vv, bb, bt, pr, w) ==
    LET n == Cardinality(DOMAIN w) - 1
        EV == SumTo([i \in 0..n |-> Mul64(Vv[i], pr[i])], n)
        v_search == bb + Mul64(bt, EV)
        v_accept == [i \in 0..n |-> Div64(w[i], Scale - bt)]
    IN  [i \in 0..n |-> IF v_accept[i] <= v_search THEN v_accept[i] ELSE v_search]

\* Bellman operator
Tv(Vv, bb, bt, pr, w) ==
    LET n == Cardinality(DOMAIN w) - 1
        EV == SumTo([i \in 0..n |-> Mul64(Vv[i], pr[i])], n)
        v_search == bb + Mul64(bt, EV)
        v_accept == [i \in 0..n |-> Div64(w[i], Scale - bt)]
    IN  [i \in 0..n |-> Max2(v_accept[i], v_search)]

\* Bellman operator with Jax functions: the same expression on float32 arrays
Tv_jax(Vv, bb, bt, pr, w) ==
    LET n == Cardinality(DOMAIN w) - 1
        EV == F32(SumTo([i \in 0..n |-> Mul32(F32(Vv[i]), F32(pr[i]))], n))
        v_search == F32(F32(bb) + Mul32(F32(bt), EV))
        v_accept == [i \in 0..n |-> Div32(F32(w[i]), F32(Scale - bt))]
    IN  [i \in 0..n |-> Max2(v_accept[i], v_search)]

\* "Jitting" the Bellman operator: the compiled function of the same expression
Tv_jax_jit(Vv, bb, bt, pr, w) == Tv_jax(Vv, bb, bt, pr, w)

\* jax.device_put of a NumPy float64 array
device_put(a) == [i \in DOMAIN a |-> F32(a[i])]

\* np.abs(V - TV).max()
dist(Vv, TV) ==
    LET n == Cardinality(DOMAIN Vv) - 1
    IN  MaxTo([i \in 0..n |-> Abs(Vv[i] - TV[i])], n)

zeros(n) == [i \in 0..n |-> 0]

\* the initial value of v_dist, in fixed-point units
VDist0 == 10 * Scale

\* the loop condition with iter <= max_iter
loop_cond_one_more(vd, vt, it, mi) == vd > vt /\ it <= mi

\* the loop condition (v_dist > v_tol) & (iter < max_iter)
loop_cond(vd, vt, it, mi) == vd > vt /\ it < mi

\* the kernel before any cell has run: no name is bound
InitJobSearch ==
    /\ args = <<>>
    /\ beta = 0 /\ v_tol = 0 /\ max_iter = 0
    /\ wages = <<>> /\ p = <<>> /\ b = 0
    /\ V = <<>> /\ V_prev = <<>> /\ v_dist = 0 /\ iter = 0
    /\ wages_j = <<>> /\ p_j = <<>> /\ b_j = 0
    /\ V_j = <<>> /\ V_j_prev = <<>> /\ v_dist_j = 0 /\ iter_j = 0

\* McCall_VFI is called: the statements before its while loop.  pdf stands for
\* the values stats.lognorm.pdf returns on the grid for the given mu and sigma.
Call_McCall_VFI ==
    /\ nb = "JobSearch_Jax" /\ pc = "start"
    /\ \E n \in 1..MaxN, w_min \in WMins, w_max \in WMaxs, theta \in Thetas :
         \E pdf \in Pdfs(n) :
            /\ args' = [theta |-> theta, w_min |-> w_min, w_max |-> w_max,
                        n |-> n, pdf |-> pdf]
            /\ wages' = linspace(w_min, w_max, n)
            /\ p' = normalize(pdf, n)
            /\ b' = benefit(theta, linspace(w_min, w_max, n), normalize(pdf, n), n)
            /\ V' = zeros(n)
            /\ V_prev' = zeros(n)
    /\ beta' \in Betas
    /\ v_tol' \in VTols
    /\ max_iter' \in 0..MaxIter
    /\ v_dist' = VDist0
    /\ iter' = 0
    /\ pc' = "vfi"
    /\ UNCHANGED <<nb, vars_dk, vars_sql, vars_bd, vars_rf, vars_pt, wages_j, p_j, b_j, V_j, V_j_prev, v_dist_j, iter_j>>

\* one pass of the while loop of McCall_VFI
VFI_Step ==
    /\ nb = "JobSearch_Jax" /\ pc = "vfi"
    /\ loop_cond(v_dist, v_tol, iter, max_iter)
    /\ LET TV == Tv(V, b, beta, p, wages)
       IN  /\ v_dist' = dist(V, TV)
           /\ V_prev' = V
           /\ V' = TV
    /\ iter' = iter + 1
    /\ UNCHANGED <<nb, vars_dk, vars_sql, pc, vars_bd, vars_rf, vars_pt, args, beta, v_tol, max_iter, wages, p, b,
                   wages_j, p_j, b_j, V_j, V_j_prev, v_dist_j, iter_j>>

\* the loop of McCall_VFI exits and the function returns V
VFI_Return ==
    /\ nb = "JobSearch_Jax" /\ pc = "vfi"
    /\ ~loop_cond(v_dist, v_tol, iter, max_iter)
    /\ pc' = "vfi_returned"
    /\ UNCHANGED <<nb, vars_dk, vars_sql, vars_js, vars_bd, vars_rf, vars_pt>>

\* McCall_VFI_jax is called with the same arguments: the statements before its
\* while loop, the arrays built with NumPy and then shifted onto the device
Call_McCall_VFI_jax ==
    /\ nb = "JobSearch_Jax" /\ pc = "vfi_returned"
    /\ LET w == linspace(args.w_min, args.w_max, args.n)
           pr == normalize(args.pdf, args.n)
       IN  /\ wages_j' = device_put(w)
           /\ p_j' = device_put(pr)
           /\ b_j' = benefit(args.theta, w, pr, args.n)
    /\ V_j' = device_put(zeros(args.n))
    /\ V_j_prev' = device_put(zeros(args.n))
    /\ v_dist_j' = VDist0
    /\ iter_j' = 0
    /\ pc' = "vfi_jax"
    /\ UNCHANGED <<nb, vars_dk, vars_sql, vars_bd, vars_rf, vars_pt, args, beta, v_tol, max_iter, wages, p, b,
                   V, V_prev, v_dist, iter>>

\* one pass of the while loop of McCall_VFI_jax
VFI_jax_Step ==
    /\ nb = "JobSearch_Jax" /\ pc = "vfi_jax"
    /\ loop_cond(v_dist_j, F32(v_tol), iter_j, max_iter)
    /\ LET TV == Tv_jax(V_j, b_j, beta, p_j, wages_j)
       IN  /\ v_dist_j' = dist(V_j, TV)
           /\ V_j_prev' = V_j
           /\ V_j' = TV
    /\ iter_j' = iter_j + 1
    /\ UNCHANGED <<nb, vars_dk, vars_sql, pc, vars_bd, vars_rf, vars_pt, args, beta, v_tol, max_iter, wages, p, b,
                   V, V_prev, v_dist, iter, wages_j, p_j, b_j>>

\* the loop of McCall_VFI_jax exits and the function returns V
VFI_jax_Return ==
    /\ nb = "JobSearch_Jax" /\ pc = "vfi_jax"
    /\ ~loop_cond(v_dist_j, F32(v_tol), iter_j, max_iter)
    /\ pc' = "done"
    /\ UNCHANGED <<nb, vars_dk, vars_sql, vars_js, vars_bd, vars_rf, vars_pt>>

\* ------------------------------------------------------------------------
\* BigDataTechniques.ipynb: full_data and chunked_data
\* ------------------------------------------------------------------------
\* a cell of the export_value column: a missing value or a number
Cells == {[na |-> TRUE, v |-> 0]} \cup {[na |-> FALSE, v |-> e] : e \in 1..MaxValue}

RECURSIVE SeqsUpTo(_, _)
\* the sequences over S of length at most k
SeqsUpTo(S, k) ==
    IF k = 0 THEN {<<>>}
    ELSE LET shorter == SeqsUpTo(S, k - 1)
         IN  shorter \cup {Append(q, e) : q \in {r \in shorter : Len(r) = k - 1}, e \in S}

RECURSIVE col_sum(_)
\* Series.sum(): the sum of the values that are not missing
col_sum(col) ==
    IF col = <<>> THEN 0
    ELSE (IF Head(col).na THEN 0 ELSE Head(col).v) + col_sum(Tail(col))

RECURSIVE col_count(_)
\* Series.count(): the number of values that are not missing
col_count(col) ==
    IF col = <<>> THEN 0
    ELSE (IF Head(col).na THEN 0 ELSE 1) + col_count(Tail(col))

\* the text of f"{x:,.2f}" for x = num / den: the quotient in hundredths, or
\* nan when the quotient is 0 / 0
format2(num, den) ==
    IF den = 0 THEN [nan |-> TRUE, hundredths |-> 0]
    ELSE [nan |-> FALSE, hundredths |-> RoundDiv(num * 100, den)]

\* Series.mean(): the mean of the values that are not missing, nan if none is
col_mean(col) == format2(col_sum(col), col_count(col))

\* chunk["export_value"].sum() and chunk["export_value"].count()
chunk_sum(chunk) == col_sum(chunk)

\* len(chunk): the rows of the chunk, missing values included
chunk_count_rows(chunk) == Len(chunk)

chunk_count(chunk) == col_count(chunk)

\* the chunk pd.read_csv(DATA_FILE, chunksize=chunksize) yields after `done`
\* rows have been read
next_chunk(file, done, size) ==
    SubSeq(file, done + 1, IF done + size <= Len(file) THEN done + size ELSE Len(file))

\* whether the reader yields another chunk: rows are left, or nothing has been
\* yielded yet (a file with no rows yields one empty chunk)
has_chunk(file, done, first) == done < Len(file) \/ first

InitBigData ==
    /\ DATA_FILE \in (IF nb = "BigDataTechniques" THEN SeqsUpTo(Cells, MaxRows) ELSE {<<>>})
    /\ chunksize = 0 /\ total = 0 /\ count = 0 /\ rows_read = 0
    /\ first_chunk = FALSE
    /\ printed_full = <<>> /\ printed_chunked = <<>>
    /\ df = <<>> /\ df2 = <<>> /\ described = <<>>

\* ------------------------------------------------------------------------
\* BigDataTechniques.ipynb: more efficient data types
\* ------------------------------------------------------------------------
MaxNRows == 2

\* a value that is present
Cell(e) == [na |-> FALSE, v |-> e]

\* the first nrows rows of the export_value column, as float64 numbers
head_export_value(file, nrows) ==
    [k \in 1..(IF Len(file) < nrows THEN Len(file) ELSE nrows) |->
        IF file[k].na THEN file[k] ELSE Cell(file[k].v * Scale)]

\* the values of an int64 column of n rows (ids as integers) and of a float64
\* column of n rows (in units of 1/Scale) the file may hold
IntColumns(n) == {[k \in 1..n |-> Cell(k)], [k \in 1..n |-> Cell(300 * k)],
                  [k \in 1..n |-> Cell(k - 2)]}
FloatColumns(n) == {[k \in 1..n |-> Cell(7 * k - 12)], [k \in 1..n |-> Cell(25 * k)]}

\* numpy's cast of an integer to an unsigned type: the value modulo 2 ** bits
\* (every non-negative integer of the model fits uint32)
cast_unsigned(v, dtype) ==
    IF dtype = "uint8" THEN v % 256 ELSE IF dtype = "uint16" THEN v % 65536 ELSE v

\* whether the cast to dtype leaves every value of the column as it is
holds(col, dtype) == \A k \in 1..Len(col) : cast_unsigned(col[k].v, dtype) = col[k].v

\* the column cast to uint8 whatever its values
to_numeric_uint8(col) ==
    [dtype |-> "uint8",
     values |-> [k \in 1..Len(col) |-> Cell(cast_unsigned(col[k].v, "uint8"))]]

\* pd.to_numeric(col, downcast="unsigned"): the smallest unsigned type whose cast
\* leaves every value unchanged; a column with a negative value stays int64
to_numeric_unsigned(col) ==
    IF \E k \in 1..Len(col) : col[k].v < 0 THEN [dtype |-> "int64", values |-> col]
    ELSE LET dtype == IF holds(col, "uint8") THEN "uint8"
                      ELSE IF holds(col, "uint16") THEN "uint16" ELSE "uint32"
         IN  [dtype |-> dtype,
              values |-> [k \in 1..Len(col) |-> Cell(cast_unsigned(col[k].v, dtype))]]

\* pd.to_numeric(col, downcast="float"): the values as float32, missing values
\* stay missing
to_numeric_float(col) ==
    [dtype |-> "float32",
     values |-> [k \in 1..Len(col) |-> IF col[k].na THEN col[k] ELSE Cell(F32(col[k].v))]]

RECURSIVE insert_sorted(_, _)
insert_sorted(sorted, e) ==
    IF sorted = <<>> THEN <<e>>
    ELSE IF e <= Head(sorted) THEN <<e>> \o sorted
    ELSE <<Head(sorted)>> \o insert_sorted(Tail(sorted), e)

RECURSIVE sort_values(_)
\* the values of a column that are present, in ascending order
sort_values(col) ==
    IF col = <<>> THEN <<>>
    ELSE IF Head(col).na THEN sort_values(Tail(col))
    ELSE insert_sorted(sort_values(Tail(col)), Head(col).v)

RECURSIVE sum_values(_)
sum_values(s) == IF s = <<>> THEN 0 ELSE Head(s) + sum_values(Tail(s))

\* four times the quantile j / 4 of the sorted values s, by linear interpolation
\* between the two nearest ranks
quantile4(s, j) ==
    LET h == (Len(s) - 1) * j
        lo == h \div 4 + 1
    IN  IF h % 4 = 0 THEN 4 * s[lo] ELSE 4 * s[lo] + (h % 4) * (s[lo + 1] - s[lo])

\* Series.describe() of a numeric column.  A statistic is <<>> when it is NaN;
\* mean is the fraction <<sum, count>>, std is kept as its square, the fraction
\* <<n * sum of squares - square of sum, n * (n - 1)>>, and the quartiles are
\* kept times 4.
describe(col) ==
    LET s == sort_values(col)
        n == Len(s)
        squares == [k \in 1..n |-> s[k] * s[k]]
    IN  [count |-> n,
         mean |-> IF n = 0 THEN <<>> ELSE <<sum_values(s), n>>,
         std |-> IF n <= 1 THEN <<>>
                 ELSE <<n * sum_values(squares) - sum_values(s) * sum_values(s), n * (n - 1)>>,
         min |-> IF n = 0 THEN <<>> ELSE <<s[1]>>,
         q25 |-> IF n = 0 THEN <<>> ELSE <<quantile4(s, 1)>>,
         q50 |-> IF n = 0 THEN <<>> ELSE <<quantile4(s, 2)>>,
         q75 |-> IF n = 0 THEN <<>> ELSE <<quantile4(s, 3)>>,
         max |-> IF n = 0 THEN <<>> ELSE <<s[n]>>]

\* DataFrame.describe(): the statistics of every column
describe_frame(frame) == [c \in DOMAIN frame |-> describe(frame[c].values)]

\* df = pd.read_csv(DATA_FILE, nrows=10_000)
read_csv_nrows ==
    /\ nb = "BigDataTechniques" /\ pc = "start"
    /\ LET export_value == head_export_value(DATA_FILE, MaxNRows)
       IN  \E country_id \in IntColumns(Len(export_value)),
              coi \in FloatColumns(Len(export_value)) :
                df' = [country_id |-> [dtype |-> "int64", values |-> country_id],
                       export_value |-> [dtype |-> "float64", values |-> export_value],
                       coi |-> [dtype |-> "float64", values |-> coi]]
    /\ pc' = "df"
    /\ UNCHANGED <<nb, vars_dk, vars_sql, vars_js, vars_rf, vars_pt, DATA_FILE, chunksize,
                   total, count, rows_read, first_chunk, printed_full, printed_chunked,
                   df2, described>>

\* df2 = df.copy(); the id columns are downcast with downcast="unsigned" and the
\* float columns with downcast="float"
downcast ==
    /\ nb = "BigDataTechniques" /\ pc = "df"
    /\ df2' = [country_id |-> to_numeric_unsigned(df.country_id.values),
               export_value |-> to_numeric_float(df.export_value.values),
               coi |-> to_numeric_float(df.coi.values)]
    /\ pc' = "df2"
    /\ UNCHANGED <<nb, vars_dk, vars_sql, vars_js, vars_rf, vars_pt, DATA_FILE, chunksize,
                   total, count, rows_read, first_chunk, printed_full, printed_chunked,
                   df, described>>

\* df2.describe() - df.describe(): the two summaries
describe_both ==
    /\ nb = "BigDataTechniques" /\ pc = "df2"
    /\ described' = [df |-> describe_frame(df), df2 |-> describe_frame(df2)]
    /\ pc' = "described"
    /\ UNCHANGED <<nb, vars_dk, vars_sql, vars_js, vars_rf, vars_pt, DATA_FILE, chunksize,
                   total, count, rows_read, first_chunk, printed_full, printed_chunked,
                   df, df2>>

\* %memit full_data()
full_data ==
    /\ nb = "BigDataTechniques" /\ pc = "described"
    /\ printed_full' = <<col_mean(DATA_FILE)>>
    /\ pc' = "full_data_done"
    /\ UNCHANGED <<nb, vars_dk, vars_sql, vars_js, vars_rf, vars_pt, vars_df, DATA_FILE, chunksize, total, count, rows_read,
                   first_chunk, printed_chunked>>

\* %memit chunked_data(): the statements before the for loop
chunked_data_Call ==
    /\ nb = "BigDataTechniques" /\ pc = "full_data_done"
    /\ chunksize' \in 1..MaxChunk
    /\ total' = 0
    /\ count' = 0
    /\ rows_read' = 0
    /\ first_chunk' = TRUE
    /\ pc' = "chunked_data"
    /\ UNCHANGED <<nb, vars_dk, vars_sql, vars_js, vars_rf, vars_pt, vars_df, DATA_FILE, printed_full, printed_chunked>>

\* one pass of the for loop over the chunks
chunked_data_Step ==
    /\ nb = "BigDataTechniques" /\ pc = "chunked_data"
    /\ has_chunk(DATA_FILE, rows_read, first_chunk)
    /\ LET chunk == next_chunk(DATA_FILE, rows_read, chunksize)
       IN  /\ total' = total + chunk_sum(chunk)
           /\ count' = count + chunk_count(chunk)
           /\ rows_read' = rows_read + Len(chunk)
    /\ first_chunk' = FALSE
    /\ UNCHANGED <<nb, vars_dk, vars_sql, pc, vars_js, vars_rf, vars_pt, vars_df, DATA_FILE, chunksize, printed_full, printed_chunked>>

\* the chunks are exhausted: print(f"Mean exports: {total/count:,.2f}")
chunked_data_Print ==
    /\ nb = "BigDataTechniques" /\ pc = "chunked_data"
    /\ ~has_chunk(DATA_FILE, rows_read, first_chunk)
    /\ printed_chunked' = <<format2(total, count)>>
    /\ pc' = "done"
    /\ UNCHANGED <<nb, vars_dk, vars_sql, vars_js, vars_rf, vars_pt, vars_df, DATA_FILE, chunksize, total, count, rows_read,
                   first_chunk, printed_full>>

NextBigData ==
    \/ read_csv_nrows
    \/ downcast
    \/ describe_both
    \/ full_data
    \/ chunked_data_Call
    \/ chunked_data_Step
    \/ chunked_data_Print

\* ------------------------------------------------------------------------
\* BigDataTechniques.ipynb: SQL in Python
\* ------------------------------------------------------------------------
MaxIds == 2
MaxDbRows == 2

\* range(2015, 2018)
year_range == 2015..2017

\* the company ids and the rows of the joined transcript tables: the company id,
\* the year of mostimportantdateutc, the columns drop_duplicates compares (key)
\* and the remaining columns (rest)
CompanyIds == {1, 2}
DbRows == [companyid : CompanyIds, year : {2015, 2017}, key : {1}, rest : {1, 2}]

\* db.raw_sql(sql_query): the rows WHERE a.companyid={0} AND
\* date_part('year',mostimportantdateutc)={1}, in the order of the tables
raw_sql(rows, companyid, yr) ==
    SelectSeq(rows, LAMBDA r : r.companyid = companyid /\ r.year = yr)

RECURSIVE drop_duplicates(_)
\* data.drop_duplicates(subset=[...], keep="first"): of the rows that agree on the
\* columns of subset only the first one stays
drop_duplicates(rows) ==
    IF rows = <<>> THEN <<>>
    ELSE <<Head(rows)>> \o
         drop_duplicates(SelectSeq(Tail(rows), LAMBDA r : r.key # Head(rows).key))

InitSQL ==
    /\ db \in (IF nb = "SQL_in_Python" THEN SeqsUpTo(DbRows, MaxDbRows) ELSE {<<>>})
    /\ companyid_list \in (IF nb = "SQL_in_Python" THEN SeqsUpTo(CompanyIds, MaxIds)
                                                    ELSE {<<>>})
    /\ sql_year = 0 /\ sql_pos = 0 /\ data = <<>> /\ df_list = <<>>

\* import wrds ...; db = wrds.Connection(wrds_username=...)
wrds_Connection ==
    /\ nb = "SQL_in_Python" /\ pc = "start"
    /\ pc' = "for_year"
    /\ UNCHANGED <<nb, vars_dk, vars_js, vars_bd, vars_rf, vars_pt, vars_sql>>

\* for year in range(2015, 2018): the next year is bound; df_list = []
for_year ==
    /\ nb = "SQL_in_Python" /\ pc = "for_year"
    /\ \E yr \in year_range :
          /\ yr = (IF sql_year = 0 THEN 2015 ELSE sql_year + 1)
          /\ sql_year' = yr
    /\ df_list' = <<>>
    /\ sql_pos' = 0
    /\ pc' = "for_companyid"
    /\ UNCHANGED <<nb, vars_dk, vars_js, vars_bd, vars_rf, vars_pt, db, companyid_list, data>>

\* for companyid in companyid_list: the query is run, duplicates are dropped and
\* the data is appended to df_list
for_companyid ==
    /\ nb = "SQL_in_Python" /\ pc = "for_companyid"
    /\ sql_pos < Len(companyid_list)
    /\ sql_pos' = sql_pos + 1
    /\ LET companyid == companyid_list[sql_pos + 1]
           result == drop_duplicates(raw_sql(db, companyid, sql_year))
       IN  /\ data' = result
           /\ df_list' = Append(df_list, result)
    /\ UNCHANGED <<nb, vars_dk, pc, vars_js, vars_bd, vars_rf, vars_pt, db, companyid_list, sql_year>>

\* companyid_list is exhausted: back to the loop over the years
for_companyid_end ==
    /\ nb = "SQL_in_Python" /\ pc = "for_companyid"
    /\ sql_pos = Len(companyid_list)
    /\ pc' = "for_year"
    /\ UNCHANGED <<nb, vars_dk, vars_js, vars_bd, vars_rf, vars_pt, vars_sql>>

\* the range of years is exhausted: the cell ends
for_year_end ==
    /\ nb = "SQL_in_Python" /\ pc = "for_year"
    /\ sql_year # 0 /\ sql_year + 1 \notin year_range
    /\ pc' = "done"
    /\ UNCHANGED <<nb, vars_dk, vars_js, vars_bd, vars_rf, vars_pt, vars_sql>>

NextSQL ==
    \/ wrds_Connection
    \/ for_year
    \/ for_companyid
    \/ for_companyid_end
    \/ for_year_end

\* ------------------------------------------------------------------------
\* Big Data in Python with Dask DataFrames (src/unnamed/part_000)
\* ------------------------------------------------------------------------
MaxTradeRows == 3
MaxDtaRows == 1
MaxPartitions == 2

\* eci varies only by country
eci_of(country) == country + 10

\* the rows of trade_data_2022.csv and of DATA_FILE2: the columns the cells use
TradeRows == {[country_id |-> c, partner_country_id |-> pc_id, eci |-> eci_of(c)] :
                 c \in 1..2, pc_id \in 1..3}
DtaRows == {[country_id |-> 1, partner_country_id |-> pc_id, eci |-> eci_of(1)] :
                 pc_id \in 1..2}

\* a missing value and a present one in a merged frame
NaN == [na |-> TRUE, v |-> 0]
Val(e) == [na |-> FALSE, v |-> e]

RECURSIVE drop_duplicates_subset(_, _)
\* frame.drop_duplicates(subset=subset): the first row of each value of subset
drop_duplicates_subset(rows, subset) ==
    IF rows = <<>> THEN <<>>
    ELSE <<Head(rows)>> \o
         drop_duplicates_subset(
             SelectSeq(Tail(rows), LAMBDA r : r[subset] # Head(rows)[subset]), subset)

RECURSIVE drop_duplicates_rows(_)
\* frame.drop_duplicates(): the first of the rows equal in every column
drop_duplicates_rows(rows) ==
    IF rows = <<>> THEN <<>>
    ELSE <<Head(rows)>> \o
         drop_duplicates_rows(SelectSeq(Tail(rows), LAMBDA r : r # Head(rows)))

\* frame[[columns]]
columns_of(rows, cols) == [k \in 1..Len(rows) |-> [c \in cols |-> rows[k][c]]]

\* the row of left.merge(right, left_on=..., right_on=...) made of a left row and
\* the values of the right columns; the columns both frames have get the
\* suffixes _x and _y
merged_row(l, country_id_y, eci_y) ==
    [country_id_x |-> l.country_id, partner_country_id |-> l.partner_country_id,
     eci_x |-> l.eci, country_id_y |-> country_id_y, eci_y |-> eci_y]

RECURSIVE merge(_, _, _, _, _)
\* left.merge(right=right, left_on=left_on, right_on=right_on, how=how): in the
\* order of the left rows, one row for every right row with the same key; a left
\* row without one stays with missing values when how is "left"
merge(left, right, left_on, right_on, how) ==
    IF left = <<>> THEN <<>>
    ELSE LET l == Head(left)
             found == SelectSeq(right, LAMBDA r : r[right_on] = l[left_on])
             rows == IF found # <<>>
                     THEN [k \in 1..Len(found) |->
                              merged_row(l, Val(found[k].country_id), Val(found[k].eci))]
                     ELSE IF how = "left" THEN <<merged_row(l, NaN, NaN)>> ELSE <<>>
         IN  rows \o merge(Tail(left), right, left_on, right_on, how)

\* frame.set_index(col): col becomes the index and is no longer a column
set_index(rows, col) ==
    [k \in 1..Len(rows) |->
        [index |-> rows[k][col],
         row |-> [c \in (DOMAIN rows[k]) \ {col} |-> rows[k][c]]]]

RECURSIVE merge_index_inner(_, _, _)
\* the merge on index keeping only the rows with a match
merge_index_inner(left, right, how) ==
    IF left = <<>> THEN <<>>
    ELSE LET l == Head(left)
             found == SelectSeq(right, LAMBDA r : r.index = l.index)
             rows == [k \in 1..Len(found) |->
                         [index |-> l.index, country_id |-> l.row.country_id,
                          eci_x |-> l.row.eci, eci_y |-> Val(found[k].row.eci)]]
         IN  rows \o merge_index_inner(Tail(left), right, how)

RECURSIVE merge_index(_, _, _)
\* left.merge(right, left_index=True, right_index=True, how=how): the rows pair
\* on the values of the two indexes; the result keeps the index of the left frame
merge_index(left, right, how) ==
    IF left = <<>> THEN <<>>
    ELSE LET l == Head(left)
             found == SelectSeq(right, LAMBDA r : r.index = l.index)
             rows == IF found # <<>>
                     THEN [k \in 1..Len(found) |->
                              [index |-> l.index, country_id |-> l.row.country_id,
                               eci_x |-> l.row.eci, eci_y |-> Val(found[k].row.eci)]]
                     ELSE IF how = "left"
                          THEN <<[index |-> l.index, country_id |-> l.row.country_id,
                                  eci_x |-> l.row.eci, eci_y |-> NaN]>>
                          ELSE <<>>
         IN  rows \o merge_index(Tail(left), right, how)

\* DataFrame.to_csv(path) of pandas: one file holding the rows
pd_to_csv(fs, name, rows) == (name :> [kind |-> "file", content |-> rows]) @@ fs

\* DataFrame.to_csv(path) of Dask with a path without "*": path is a directory
\* holding one file per partition, 0.part, 1.part, ...
dd_to_csv(fs, name, npartitions) ==
    (name :> [kind |-> "dir", content |-> 0..(npartitions - 1)]) @@ fs

\* os.remove of a file, whatever is at the path
os_remove_any(fs, name, dir_error) ==
    [fs |-> [n \in (DOMAIN fs) \ {name} |-> fs[n]], error |-> ""]

\* os.remove(path): removes a file; a missing path and a directory raise and are
\* left as they are (dir_error is the error the platform gives for a directory)
os_remove(fs, name, dir_error) ==
    IF name \notin DOMAIN fs THEN [fs |-> fs, error |-> "FileNotFoundError"]
    ELSE IF fs[name].kind = "dir" THEN [fs |-> fs, error |-> dir_error]
    ELSE [fs |-> [n \in (DOMAIN fs) \ {name} |-> fs[n]], error |-> ""]

InitDask ==
    /\ DATA_FILE2 \in (IF nb = "DaskDataFrames" THEN SeqsUpTo(DtaRows, MaxDtaRows)
                                                ELSE {<<>>})
    /\ trade_data_2022 \in (IF nb = "DaskDataFrames" THEN SeqsUpTo(TradeRows, MaxTradeRows)
                                                     ELSE {<<>>})
    /\ DATA_DIR = <<>>
    /\ trade_data = <<>> /\ partner_data = <<>>
    /\ trade_data2 = <<>> /\ partner_data2 = <<>>
    /\ merged = <<>> /\ os_error = <<>>

\* df = pd.read_stata(DATA_FILE2, nrows=300_000); %memit pd_profile_func(df)
pd_profile_func ==
    /\ nb = "DaskDataFrames" /\ pc = "start"
    /\ LET partner == columns_of(DATA_FILE2, {"country_id", "eci"})
           result == merge(DATA_FILE2, partner, "partner_country_id", "country_id", "inner")
       IN  DATA_DIR' = pd_to_csv(DATA_DIR, "trade_merged_pd.csv", result)
    /\ pc' = "pd_profiled"
    /\ UNCHANGED <<nb, vars_js, vars_bd, vars_rf, vars_pt, vars_sql, DATA_FILE2,
                   trade_data_2022, trade_data, partner_data, trade_data2,
                   partner_data2, merged, os_error>>

\* ddf = dd.from_pandas(pd.read_stata(DATA_FILE2, nrows=300_000));
\* %memit dd_profile_func(ddf)
dd_profile_func ==
    /\ nb = "DaskDataFrames" /\ pc = "pd_profiled"
    /\ \E npartitions \in 1..MaxPartitions :
          DATA_DIR' = dd_to_csv(DATA_DIR, "trade_merged_dd.csv", npartitions)
    /\ pc' = "dd_profiled"
    /\ UNCHANGED <<nb, vars_js, vars_bd, vars_rf, vars_pt, vars_sql, DATA_FILE2,
                   trade_data_2022, trade_data, partner_data, trade_data2,
                   partner_data2, merged, os_error>>

\* trade_data = pd.read_csv(...); the duplicates of country_id are dropped;
\* partner_data = trade_data[['country_id', 'eci']].copy() without duplicates
read_trade_data ==
    /\ nb = "DaskDataFrames" /\ pc = "dd_profiled"
    /\ LET td == drop_duplicates_subset(trade_data_2022, "country_id")
       IN  /\ trade_data' = td
           /\ partner_data' = drop_duplicates_rows(columns_of(td, {"country_id", "eci"}))
    /\ pc' = "trade_data_read"
    /\ UNCHANGED <<nb, vars_js, vars_bd, vars_rf, vars_pt, vars_sql, DATA_FILE2,
                   trade_data_2022, DATA_DIR, trade_data2, partner_data2, merged, os_error>>

\* merged = trade_data.merge(right=partner_data, left_on="partner_country_id",
\*                           right_on="country_id", how="left")
merge_on_columns ==
    /\ nb = "DaskDataFrames" /\ pc = "trade_data_read"
    /\ merged' = merge(trade_data, partner_data, "partner_country_id", "country_id", "left")
    /\ pc' = "merged_on_columns"
    /\ UNCHANGED <<nb, vars_js, vars_bd, vars_rf, vars_pt, vars_sql, DATA_FILE2,
                   trade_data_2022, DATA_DIR, trade_data, partner_data, trade_data2,
                   partner_data2, os_error>>

\* the copies are indexed by partner_country_id and country_id;
\* merged = trade_data2.merge(partner_data2, left_index=True, right_index=True,
\*                            how="left")
merge_on_index ==
    /\ nb = "DaskDataFrames" /\ pc = "merged_on_columns"
    /\ trade_data2' = set_index(trade_data, "partner_country_id")
    /\ partner_data2' = set_index(partner_data, "country_id")
    /\ merged' = merge_index(set_index(trade_data, "partner_country_id"),
                             set_index(partner_data, "country_id"), "left")
    /\ pc' = "merged_on_index"
    /\ UNCHANGED <<nb, vars_js, vars_bd, vars_rf, vars_pt, vars_sql, DATA_FILE2,
                   trade_data_2022, DATA_DIR, trade_data, partner_data, os_error>>

\* clean up files saved for this exercise: the two os.remove statements, the
\* second one not reached when the first one raises
clean_up ==
    /\ nb = "DaskDataFrames" /\ pc = "merged_on_index"
    /\ \E dir_error \in {"IsADirectoryError", "PermissionError"} :
          LET first == os_remove(DATA_DIR, "trade_merged_pd.csv", dir_error)
              second == os_remove(first.fs, "trade_merged_dd.csv", dir_error)
          IN  IF first.error # ""
              THEN DATA_DIR' = first.fs /\ os_error' = <<first.error>>
              ELSE /\ DATA_DIR' = second.fs
                   /\ os_error' = IF second.error # "" THEN <<second.error>> ELSE <<>>
    /\ pc' = "done"
    /\ UNCHANGED <<nb, vars_js, vars_bd, vars_rf, vars_pt, vars_sql, DATA_FILE2,
                   trade_data_2022, trade_data, partner_data, trade_data2,
                   partner_data2, merged>>

NextDask ==
    \/ pd_profile_func
    \/ dd_profile_func
    \/ read_trade_data
    \/ merge_on_columns
    \/ merge_on_index
    \/ clean_up

\* ------------------------------------------------------------------------
\* RootFinding.ipynb: FOC_AC and avg_cost
\* ------------------------------------------------------------------------
\* Real numbers are the rationals <<numerator, denominator>>, denominator > 0,
\* and the arithmetic on them is exact.
RInt(k) == <<k, 1>>
RAdd(r, q) == <<r[1] * q[2] + q[1] * r[2], r[2] * q[2]>>
RMul(r, q) == <<r[1] * q[1], r[2] * q[2]>>
RNeg(r) == <<-r[1], r[2]>>
REq(r, q) == r[1] * q[2] = q[1] * r[2]
RLe(r, q) == r[1] * q[2] <= q[1] * r[2]
RLt(r, q) == r[1] * q[2] < q[1] * r[2]

\* r ** -1 and r ** -2 for r > 0
RPowM1(r) == <<r[2], r[1]>>
RPowM2(r) == <<r[2] * r[2], r[1] * r[1]>>

\* (n / d) ** (1/2): the one-element sequence of the root when it is rational, the
\* empty sequence when it is irrational
RSqrt(n, d) ==
    IF \E k \in 1..(n * d) : k * k = n * d
    THEN <<(<<CHOOSE k \in 1..(n * d) : k * k = n * d, d>>)>>
    ELSE <<>>

\* -a * x ** -1 + c
FOC_AC_pow1(xx, par) ==
    RAdd(RMul(RNeg(RInt(par[1])), RPowM1(xx)), RInt(par[3]))

\* error = -a * x ** -2 + c
FOC_AC(xx, par) ==
    RAdd(RMul(RNeg(RInt(par[1])), RPowM2(xx)), RInt(par[3]))

\* a * (x ** -2) + b + c * x
avg_cost_pow2(xx, par) ==
    RAdd(RAdd(RMul(RInt(par[1]), RPowM2(xx)), RInt(par[2])), RMul(RInt(par[3]), xx))

\* ac = a * (x ** -1) + b + c * x
avg_cost(xx, par) ==
    RAdd(RAdd(RMul(RInt(par[1]), RPowM1(xx)), RInt(par[2])), RMul(RInt(par[3]), xx))

\* the amounts of output x > 0 at which the solvers call the two functions
XGrid == {<<k, m>> : k \in 1..MaxX, m \in 1..MaxX}

InitRootFinding ==
    /\ params = <<>> /\ x_hat = <<>> /\ x = <<>> /\ error = <<>> /\ ac = <<>>

\* a, b, c = ...; params = (a, b, c); the analytical solution (a/c) ** (1/2)
Set_params ==
    /\ nb = "RootFinding" /\ pc = "start"
    /\ \E a \in 1..MaxCoef, bb \in -1..MaxCoef, c \in 1..MaxCoef :
          /\ params' = <<a, bb, c>>
          /\ x_hat' = RSqrt(a, c)
    /\ pc' = "params_set"
    /\ UNCHANGED <<nb, vars_dk, vars_sql, vars_js, vars_bd, vars_pt, x, error, ac>>

\* opt.root calls FOC_AC(x, *params)
Call_FOC_AC ==
    /\ nb = "RootFinding" /\ pc \in {"params_set", "called"}
    /\ \E xx \in XGrid :
          /\ x' = xx
          /\ error' = FOC_AC(xx, params)
          /\ ac' = <<>>
    /\ pc' = "called"
    /\ UNCHANGED <<nb, vars_dk, vars_sql, vars_js, vars_bd, vars_pt, params, x_hat>>

\* opt.minimize calls avg_cost(x, *params)
Call_avg_cost ==
    /\ nb = "RootFinding" /\ pc \in {"params_set", "called"}
    /\ \E xx \in XGrid :
          /\ x' = xx
          /\ ac' = avg_cost(xx, params)
          /\ error' = <<>>
    /\ pc' = "called"
    /\ UNCHANGED <<nb, vars_dk, vars_sql, vars_js, vars_bd, vars_pt, params, x_hat>>

NextRootFinding ==
    \/ Set_params
    \/ Call_FOC_AC
    \/ Call_avg_cost

\* ------------------------------------------------------------------------
\* ParamToolsDemo.ipynb: update_specifications and TaxParams
\* ------------------------------------------------------------------------
\* the choices of the validator of tax_func_type
tax_func_type_choices == {"DEP", "DEP_totalinc", "GS", "HSV", "linear", "mono", "mono2D"}

\* the values passed as {'tax_func_type': value}
Revisions == tax_func_type_choices \cup {"whatever"}

\* cit_rate and initial_debt_ratio are counted in ten-thousandths.
\* the range of cit_rate: the values of the loop are inside, 1.5 is outside
cit_rate_range == [min |-> 0, max |-> 100 * 100]

\* a validation that finds no error in any value
validate_any(param, value) == <<>>

\* the validation of a new value against the validators of its parameter: the
\* errors found, none when the value meets the constraint
validate(param, value) ==
    IF param = "tax_func_type" /\ value \notin tax_func_type_choices
    THEN <<[ename |-> "ValidationError", param |-> param, value |-> value]>>
    ELSE IF param = "cit_rate" /\ (value < cit_rate_range.min \/ value > cit_rate_range.max)
    THEN <<[ename |-> "ValidationError", param |-> param, value |-> value]>>
    ELSE <<>>

\* schema.labels.year.validators.range
YearMin == 2013
YearMax == 2033

\* the value objects of standard_deduction in defaults, in hundredths
defaults_value ==
    (2013 :> [single |-> 610000, joint |-> 1220000]) @@
    (2018 :> [single |-> 1200000, joint |-> 2400000]) @@
    (2026 :> [single |-> 768500, joint |-> 1536900])

\* inflation rates, in ten-thousandths
index_rates ==
    (2013 :> 148) @@ (2014 :> 159) @@ (2015 :> 12) @@ (2016 :> 126) @@
    (2017 :> 167) @@ (2018 :> 200) @@ (2019 :> 130) @@ (2020 :> 80) @@
    (2021 :> 427) @@ (2022 :> 723) @@ (2023 :> 540) @@ (2024 :> 550) @@
    (2025 :> 212) @@ (2026 :> 207) @@ (2027 :> 195) @@ (2028 :> 194) @@
    (2029 :> 197) @@ (2030 :> 198) @@ (2031 :> 199) @@ (2032 :> 200) @@
    (2033 :> 200)

\* the array the notebook shows for params.standard_deduction, in hundredths
shown_standard_deduction ==
    (2013 :> <<610000, 1220000>>) @@ (2014 :> <<619028, 1238056>>) @@
    (2015 :> <<628871, 1257741>>) @@ (2016 :> <<629626, 1259250>>) @@
    (2017 :> <<637559, 1275117>>) @@ (2018 :> <<1200000, 2400000>>) @@
    (2019 :> <<1224000, 2448000>>) @@ (2020 :> <<1239912, 2479824>>) @@
    (2021 :> <<1249831, 2499663>>) @@ (2022 :> <<1303199, 2606399>>) @@
    (2023 :> <<1397420, 2794842>>) @@ (2024 :> <<1472881, 2945763>>) @@
    (2025 :> <<1553889, 3107780>>) @@ (2026 :> <<768500, 1536900>>) @@
    (2027 :> <<784408, 1568714>>) @@ (2028 :> <<799704, 1599304>>) @@
    (2029 :> <<815218, 1630330>>) @@ (2030 :> <<831278, 1662448>>) @@
    (2031 :> <<847737, 1695364>>) @@ (2032 :> <<864607, 1729102>>) @@
    (2033 :> <<881899, 1763684>>)

\* no year counted as given
given_never(y) == FALSE

\* whether defaults gives standard_deduction a value for year y
given(y) == y \in DOMAIN defaults_value

\* known * (1 + rate / 10000) rounded to the nearest integer, ties to even; the
\* product is taken in two parts, known = q * 10000 + rest
indexed(known, rate) ==
    LET q == known \div 10000
        rest == known % 10000
        whole == known + q * rate + (rest * rate) \div 10000
        frac == (rest * rate) % 10000
    IN  IF 2 * frac < 10000 THEN whole
        ELSE IF 2 * frac > 10000 THEN whole + 1
        ELSE IF whole % 2 = 0 THEN whole ELSE whole + 1

\* indexing by the rate of year y itself
extend_func_same_year(known, y) == indexed(known, index_rates[y])

\* the value extended to year y from the value known of year y - 1: indexed by
\* the rate of year y - 1 and rounded to two decimals
extend_func(known, y) == indexed(known, index_rates[y - 1])

\* the parameter values read from usa_url and zaf_url (the values the notebook
\* prints) and the default values ogcore gives, which the notebook does not show
usa_json == [initial_debt_ratio |-> 9900, cit_rate |-> 2100]
zaf_json == [initial_debt_ratio |-> 7400, cit_rate |-> 2700]
OgDefaults == {[initial_debt_ratio |-> 5900, cit_rate |-> 2100],
               [initial_debt_ratio |-> 9900, cit_rate |-> 3500]}

\* usa_params = og_params: the same object under a second name
copy_reference(objects, ref) == [heap |-> objects, ref |-> ref]

\* copy.deepcopy(obj): a new object holding copies of the values of obj
deepcopy(objects, ref) == [heap |-> Append(objects, objects[ref]), ref |-> Len(objects) + 1]

\* an update that stores the new values as float32
adjust_float32(objects, ref, rev) ==
    [objects EXCEPT ![ref] =
        [prm \in DOMAIN objects[ref] |->
            IF prm \in DOMAIN rev THEN F32(rev[prm]) ELSE objects[ref][prm]]]

\* obj.update_specifications(revision) with values that pass validation: the
\* parameters named in the revision take the new values, the others stay
adjust(objects, ref, rev) ==
    [objects EXCEPT ![ref] =
        [prm \in DOMAIN objects[ref] |->
            IF prm \in DOMAIN rev THEN rev[prm] ELSE objects[ref][prm]]]

\* np.linspace(start, stop, num): start + i * step, the last point set to stop
np_linspace(start, stop, num) ==
    LET step == RoundDiv(stop - start, num - 1)
    IN  [i \in 0..(num - 1) |-> IF i = num - 1 THEN stop ELSE start + i * step]

\* np.linspace(0.1, 0.4, 10)
cit_rates == np_linspace(1000, 4000, 10)

\* the statements of the code cells in document order: the names a statement
\* reads from the kernel and the names it binds
cell_imports == <<[reads |-> {}, binds |-> {"paramtools", "taxcalc", "ogcore", "copy"}]>>
cell_Policy == <<[reads |-> {}, binds |-> {"Policy"}],
                 [reads |-> {"Policy"}, binds |-> {"pol"}],
                 [reads |-> {"pol"}, binds |-> {}]>>
cell_reform == <<[reads |-> {}, binds |-> {"json_url"}],
                 [reads |-> {"pol", "taxcalc", "json_url"}, binds |-> {}]>>
cell_og_params == <<[reads |-> {"ogcore"}, binds |-> {"og_params"}],
                    [reads |-> {"copy", "og_params"}, binds |-> {"usa_params"}],
                    [reads |-> {}, binds |-> {"usa_url"}],
                    [reads |-> {"usa_params", "usa_url"}, binds |-> {}],
                    [reads |-> {"copy", "og_params"}, binds |-> {"zaf_params"}],
                    [reads |-> {}, binds |-> {"zaf_url"}],
                    [reads |-> {"zaf_params", "zaf_url"}, binds |-> {}],
                    [reads |-> {"usa_params", "zaf_params"}, binds |-> {}]>>
cell_linspace == <<[reads |-> {"np"}, binds |-> {"r"}],
                   [reads |-> {"r"}, binds |-> {}]>>
cell_cit_rate == <<[reads |-> {}, binds |-> {"np"}],
                   [reads |-> {"np"}, binds |-> {"r"}],
                   [reads |-> {"usa_params", "r"}, binds |-> {}]>>
cell_tax_func_type == <<[reads |-> {"usa_params"}, binds |-> {}]>>
cell_TaxParams == <<[reads |-> {"paramtools"}, binds |-> {"TaxParams"}]>>
cell_params == <<[reads |-> {"TaxParams"}, binds |-> {"params"}],
                 [reads |-> {"params"}, binds |-> {}]>>
cell_sel == <<[reads |-> {"params"}, binds |-> {}]>>

RECURSIVE run_cell(_, _)
\* a cell run in a kernel with the names bound: the names bound afterwards and
\* the names of the NameError that ended the cell, none when it ran to its end
run_cell(bound, cell) ==
    IF cell = <<>> THEN [names |-> bound, missing |-> {}]
    ELSE IF Head(cell).reads \subseteq bound
         THEN run_cell(bound \cup Head(cell).binds, Tail(cell))
         ELSE [names |-> bound, missing |-> Head(cell).reads \ bound]

\* the NameErrors raised so far, with the one of this cell if it raises
errors_after(errors, bound, cell, line) ==
    IF run_cell(bound, cell).missing = {} THEN errors
    ELSE Append(errors, [ename |-> "NameError", line |-> line,
                         name |-> run_cell(bound, cell).missing])

InitParamTools ==
    /\ tax_func_type = "" /\ revision = <<>> /\ raised = <<>>
    /\ standard_deduction = <<>> /\ year = 0
    /\ og_defaults \in (IF nb = "ParamToolsDemo" THEN OgDefaults
                                                 ELSE {[initial_debt_ratio |-> 0, cit_rate |-> 0]})
    /\ heap = <<>> /\ og_params = 0 /\ usa_params = 0 /\ zaf_params = 0
    /\ r_pos = 0 /\ printed = <<>>
    /\ names = {} /\ name_errors = <<>>

\* a cell whose statements only bind names of the libraries and of Policy
run_names(cell, line, from, to) ==
    /\ nb = "ParamToolsDemo" /\ pc = from
    /\ names' = run_cell(names, cell).names
    /\ name_errors' = errors_after(name_errors, names, cell, line)
    /\ pc' = to
    /\ UNCHANGED <<nb, vars_dk, vars_sql, vars_js, vars_bd, vars_rf, tax_func_type, revision,
                   raised, standard_deduction, year, vars_og>>

\* import paramtools, taxcalc, ogcore, copy
imports == run_names(cell_imports, 36, "start", "imported")

\* from taxcalc import Policy; pol = Policy(); ...
Policy_current_law == run_names(cell_Policy, 118, "imported", "current_law")

\* pol.implement_reform(taxcalc.Policy.read_json_reform(json_url)); ...
Policy_implement_reform == run_names(cell_reform, 139, "current_law", "reform")

\* og_params = ogcore.parameters.Specifications(); usa_params and zaf_params are
\* deep copies of it, each updated from the file of its country; tax_func_type
\* of usa_params holds a value that passed validation
Load_usa_params ==
    /\ nb = "ParamToolsDemo" /\ pc = "reform"
    /\ names' = run_cell(names, cell_og_params).names
    /\ name_errors' = errors_after(name_errors, names, cell_og_params, 171)
    /\ IF run_cell(names, cell_og_params).missing = {}
       THEN LET usa == deepcopy(<<og_defaults>>, 1)
                usa_heap == adjust(usa.heap, usa.ref, usa_json)
                zaf == deepcopy(usa_heap, 1)
            IN  /\ heap' = adjust(zaf.heap, zaf.ref, zaf_json)
                /\ og_params' = 1
                /\ usa_params' = usa.ref
                /\ zaf_params' = zaf.ref
                /\ tax_func_type' \in tax_func_type_choices
                /\ printed' = <<heap'[usa.ref].initial_debt_ratio, heap'[zaf.ref].initial_debt_ratio,
                                heap'[usa.ref].cit_rate, heap'[zaf.ref].cit_rate>>
       ELSE UNCHANGED <<heap, og_params, usa_params, zaf_params, tax_func_type, printed>>
    /\ pc' = "og_params"
    /\ UNCHANGED <<nb, vars_dk, vars_sql, vars_js, vars_bd, vars_rf, revision, raised,
                   standard_deduction, year, og_defaults, r_pos>>

\* for r in np.linspace(0.1, 0.4, 10): print(r)
print_linspace ==
    /\ nb = "ParamToolsDemo" /\ pc = "og_params"
    /\ names' = run_cell(names, cell_linspace).names
    /\ name_errors' = errors_after(name_errors, names, cell_linspace, 224)
    /\ printed' = IF run_cell(names, cell_linspace).missing = {}
                  THEN [i \in 1..10 |-> cit_rates[i - 1]] ELSE <<>>
    /\ pc' = "linspace"
    /\ UNCHANGED <<nb, vars_dk, vars_sql, vars_js, vars_bd, vars_rf, tax_func_type, revision,
                   raised, standard_deduction, year, og_defaults, heap, og_params,
                   usa_params, zaf_params, r_pos>>

\* import numpy as np; the for loop over np.linspace(0.1, 0.4, 10) starts
cit_rate_loop ==
    /\ nb = "ParamToolsDemo" /\ pc = "linspace"
    /\ names' = run_cell(names, cell_cit_rate).names
    /\ name_errors' = errors_after(name_errors, names, cell_cit_rate, 251)
    /\ r_pos' = 0
    /\ printed' = <<>>
    /\ pc' = IF run_cell(names, cell_cit_rate).missing = {} THEN "cit_rate" ELSE "usa_params"
    /\ UNCHANGED <<nb, vars_dk, vars_sql, vars_js, vars_bd, vars_rf, tax_func_type, revision,
                   raised, standard_deduction, year, og_defaults, heap, og_params,
                   usa_params, zaf_params>>

\* one pass of the loop: usa_params.update_specifications({'cit_rate': [[r]]})
\* and the print of usa_params.cit_rate[0][0]
cit_rate_step ==
    /\ nb = "ParamToolsDemo" /\ pc = "cit_rate"
    /\ r_pos < 10
    /\ LET r == cit_rates[r_pos]
           updated == IF validate("cit_rate", r) = <<>>
                      THEN adjust(heap, usa_params, [cit_rate |-> r]) ELSE heap
       IN  /\ raised' = validate("cit_rate", r)
           /\ heap' = updated
           /\ printed' = IF validate("cit_rate", r) = <<>>
                         THEN Append(printed, updated[usa_params].cit_rate) ELSE printed
           /\ r_pos' = IF validate("cit_rate", r) = <<>> THEN r_pos + 1 ELSE 10
    /\ UNCHANGED <<nb, vars_dk, vars_sql, pc, vars_js, vars_bd, vars_rf, tax_func_type, revision,
                   standard_deduction, year, og_defaults, og_params, usa_params,
                   zaf_params, vars_nm>>

\* the loop has gone through the ten values: the cell ends
cit_rate_end ==
    /\ nb = "ParamToolsDemo" /\ pc = "cit_rate"
    /\ r_pos = 10
    /\ pc' = "usa_params"
    /\ UNCHANGED <<nb, vars_dk, vars_sql, vars_js, vars_bd, vars_rf, vars_pt>>

\* usa_params.update_specifications({'tax_func_type': value})
update_specifications ==
    /\ nb = "ParamToolsDemo" /\ pc = "usa_params"
    /\ names' = run_cell(names, cell_tax_func_type).names
    /\ name_errors' = errors_after(name_errors, names, cell_tax_func_type, 280)
    /\ IF run_cell(names, cell_tax_func_type).missing = {}
       THEN \E value \in Revisions :
              /\ revision' = <<"tax_func_type", value>>
              /\ raised' = validate("tax_func_type", value)
              /\ tax_func_type' = IF validate("tax_func_type", value) = <<>>
                                   THEN value ELSE tax_func_type
       ELSE UNCHANGED <<revision, raised, tax_func_type>>
    /\ pc' = "updated"
    /\ UNCHANGED <<nb, vars_dk, vars_sql, vars_js, vars_bd, vars_rf, standard_deduction, year,
                   vars_og>>

\* class TaxParams(paramtools.Parameters); params = TaxParams(): the values given
\* in defaults are read
TaxParams_init ==
    /\ nb = "ParamToolsDemo" /\ pc = "updated"
    /\ names' = run_cell(run_cell(names, cell_TaxParams).names, cell_params).names
    /\ name_errors' = errors_after(errors_after(name_errors, names, cell_TaxParams, 297),
                                   run_cell(names, cell_TaxParams).names, cell_params, 402)
    /\ IF "params" \in names'
       THEN /\ standard_deduction' =
                  [y \in DOMAIN defaults_value |->
                      <<defaults_value[y].single, defaults_value[y].joint>>]
            /\ year' = YearMin + 1
            /\ pc' = "extend"
       ELSE /\ UNCHANGED <<standard_deduction, year>>
            /\ pc' = "done"
    /\ raised' = <<>>
    /\ UNCHANGED <<nb, vars_dk, vars_sql, vars_js, vars_bd, vars_rf, tax_func_type, revision,
                   vars_og>>

\* the extension along label_to_extend of one year: a year with a given value
\* keeps it, any other year gets the value of the year before, indexed
extend ==
    /\ nb = "ParamToolsDemo" /\ pc = "extend"
    /\ year <= YearMax
    /\ standard_deduction' =
          IF given(year) THEN standard_deduction
          ELSE (year :> <<extend_func(standard_deduction[year - 1][1], year),
                          extend_func(standard_deduction[year - 1][2], year)>>)
               @@ standard_deduction
    /\ year' = year + 1
    /\ UNCHANGED <<nb, vars_dk, vars_sql, pc, vars_js, vars_bd, vars_rf, tax_func_type, revision,
                   raised, vars_og, vars_nm>>

\* the instance is built: params.standard_deduction is shown
TaxParams_done ==
    /\ nb = "ParamToolsDemo" /\ pc = "extend"
    /\ year > YearMax
    /\ pc' = "done"
    /\ UNCHANGED <<nb, vars_dk, vars_sql, vars_js, vars_bd, vars_rf, vars_pt>>

\* params.sel["standard_deduction"]
sel == run_names(cell_sel, 466, "done", "sel")

NextParamTools ==
    \/ imports
    \/ Policy_current_law
    \/ Policy_implement_reform
    \/ Load_usa_params
    \/ print_linspace
    \/ cit_rate_loop
    \/ cit_rate_step
    \/ cit_rate_end
    \/ update_specifications
    \/ TaxParams_init
    \/ extend
    \/ TaxParams_done
    \/ sel

Init ==
    /\ nb \in Notebooks
    /\ pc = "start"
    /\ InitJobSearch
    /\ InitBigData
    /\ InitRootFinding
    /\ InitParamTools
    /\ InitSQL
    /\ InitDask

NextJobSearch ==
    \/ Call_McCall_VFI
    \/ VFI_Step
    \/ VFI_Return
    \/ Call_McCall_VFI_jax
    \/ VFI_jax_Step
    \/ VFI_jax_Return

Next ==
    \/ NextJobSearch
    \/ NextBigData
    \/ NextRootFinding
    \/ NextParamTools
    \/ NextSQL
    \/ NextDask

Spec == Init /\ [][Next]_vars

\* every loop pass and every return is eventually taken: a notebook cell runs
\* to completion once started
\* a kernel started on JobSearch_Jax.ipynb
InitOnJobSearch == Init /\ nb = "JobSearch_Jax"

FairSpecJobSearch ==
    /\ InitOnJobSearch
    /\ [][NextJobSearch]_vars
    /\ WF_vars(NextJobSearch)

\* ------------------------------------------------------------------------
\* Properties of JobSearch_Jax.ipynb
\* ------------------------------------------------------------------------
GridN == args.n

\* the scalar value of searching computed from the previous iterate
SearchValue == b + Mul64(beta, SumTo([j \in 0..GridN |-> Mul64(V_prev[j], p[j])], GridN))

\* the value of accepting wage i forever
AcceptValue(i) == Div64(wages[i], Scale - beta)

\* C1: after an application of Tv, at every grid index i the result is the
\* larger of the value of accepting wage i forever, wages[i] / (1 - beta), and
\* the value of searching, b + beta * sum_j V[j] * p[j], one scalar that is the
\* same for every i.
C1_BellmanMax ==
    (nb = "JobSearch_Jax" /\ pc # "start" /\ iter >= 1) =>
        \A i \in 0..GridN :
            /\ V[i] >= AcceptValue(i)
            /\ V[i] >= SearchValue
            /\ V[i] \in {AcceptValue(i), SearchValue}

\* Tv has been applied to a non-zero iterate and both branches of the maximum occur
C1_Witness ==
    /\ nb = "JobSearch_Jax" /\ iter >= 2
    /\ \E i, k \in 0..GridN :
          /\ V[i] = AcceptValue(i) /\ AcceptValue(i) > SearchValue
          /\ V[k] = SearchValue /\ SearchValue > AcceptValue(k)

\* C2: when the loop of McCall_VFI has exited having done fewer than max_iter
\* iterations, the returned V is Tv applied to the previous iterate and the two
\* differ by at most v_tol at every grid point.
C2_ConvergedOnEarlyExit ==
    (nb = "JobSearch_Jax" /\ pc \notin {"start", "vfi"} /\ iter < max_iter) =>
        /\ V = Tv(V_prev, b, beta, p, wages)
        /\ \A i \in 0..GridN : Abs(V_prev[i] - V[i]) <= v_tol

\* C3: the loops of McCall_VFI and McCall_VFI_jax terminate: at most max_iter
\* applications of the Bellman operator are made, the iteration counter increases
\* by exactly 1 per pass, the return leaves V as the last pass set it, and the
\* function returns.
C3_Terminates ==
    /\ [](nb = "JobSearch_Jax" => (iter <= max_iter /\ iter_j <= max_iter))
    /\ [][(pc = "vfi" /\ pc' = "vfi") =>
             (iter' = iter + 1 /\ V' = Tv(V, b, beta, p, wages))]_vars
    /\ [][(pc = "vfi_jax" /\ pc' = "vfi_jax") =>
             (iter_j' = iter_j + 1 /\ V_j' = Tv_jax(V_j, b_j, beta, p_j, wages_j))]_vars
    /\ [][(pc = "vfi" /\ pc' # "vfi") => (V' = V /\ iter' = iter)]_vars
    /\ [][(pc = "vfi_jax" /\ pc' # "vfi_jax") => (V_j' = V_j /\ iter_j' = iter_j)]_vars
    /\ ((nb = "JobSearch_Jax" /\ pc = "vfi") ~> (pc = "vfi_returned"))
    /\ ((nb = "JobSearch_Jax" /\ pc = "vfi_jax") ~> (pc = "done"))

\* both loops ran to max_iter > 0 passes and both functions returned
C3_Witness ==
    /\ nb = "JobSearch_Jax" /\ pc = "done"
    /\ max_iter >= 2 /\ iter = max_iter /\ iter_j = max_iter
    /\ v_dist > v_tol

\* C4: McCall_VFI_jax performs the same number of Bellman updates and returns
\* the same value function as McCall_VFI, and Tv_jax (and its jitted form)
\* returns the same TV as Tv for the same inputs.
C4_JaxSameAsNumpy ==
    (nb = "JobSearch_Jax" /\ pc = "done") =>
        /\ iter_j = iter
        /\ V_j = V
        /\ Tv_jax(V, b, beta, p, wages) = Tv(V, b, beta, p, wages)
        /\ Tv_jax_jit(V, b, beta, p, wages) = Tv(V, b, beta, p, wages)

close(s1, s2, tol) ==
    IF s1 = <<>> \/ s2 = <<>> THEN s1 = s2 ELSE Abs(s1[1] - s2[1]) <= tol

\* C16: the summary statistics of the downcast frame equal the original's: the
\* downcast with downcast="unsigned" changes no value of the id column, so every
\* statistic of df2.describe() equals the one of df.describe() (their difference
\* is exactly 0), and the float columns downcast with downcast="float" keep
\* their count and keep their min, quartiles and max within the rounding of a
\* float32, half a quantum.
C16_DescribeUnchangedByDowncast ==
    (nb = "BigDataTechniques" /\ pc \notin {"start", "df", "df2"}) =>
        /\ df2.country_id.values = df.country_id.values
        /\ described.df2.country_id = described.df.country_id
        /\ df2.country_id.dtype = "int64" <=>
              (\E k \in 1..Len(df.country_id.values) : df.country_id.values[k].v < 0)
        /\ \A c \in {"export_value", "coi"} :
              LET a == described.df[c]
                  d == described.df2[c]
              IN  /\ d.count = a.count
                  /\ close(d.min, a.min, Q32 \div 2)
                  /\ close(d.max, a.max, Q32 \div 2)
                  /\ close(d.q25, a.q25, 4 * (Q32 \div 2))
                  /\ close(d.q50, a.q50, 4 * (Q32 \div 2))
                  /\ close(d.q75, a.q75, 4 * (Q32 \div 2))

\* the summaries are taken of a frame whose ids needed uint16 and whose float32
\* values differ from the float64 ones, a missing export value among them
C16_Witness ==
    /\ nb = "BigDataTechniques" /\ pc = "described"
    /\ df2.country_id.dtype = "uint16"
    /\ described.df.coi.count >= 2
    /\ described.df2.coi.min # described.df.coi.min
    /\ described.df2.coi.q50 # described.df.coi.q50
    /\ described.df.export_value.count < described.df.coi.count

\* ------------------------------------------------------------------------
\* Properties of the SQL example of BigDataTechniques.ipynb
\* ------------------------------------------------------------------------
\* C11: when the loops over the years 2015, 2016, 2017 and over companyid_list
\* have finished, df_list holds the de-duplicated query result of every
\* (year, companyid) pair: one dataframe per company id for each of the three
\* years, in the order of the loops.
C11_AllYearsRetrieved ==
    (nb = "SQL_in_Python" /\ pc = "done") =>
        LET L == Len(companyid_list)
        IN  /\ Len(df_list) = 3 * L
            /\ \A k \in 1..Len(df_list) :
                  df_list[k] = drop_duplicates(
                      raw_sql(db, companyid_list[((k - 1) % L) + 1], 2015 + (k - 1) \div L))

\* ------------------------------------------------------------------------
\* Properties of the notebook on Dask DataFrames
\* ------------------------------------------------------------------------
\* each trade row of the merge on columns with the partner eci it is paired with
pairs_on_columns(frame) ==
    {<<frame[k].country_id_x, frame[k].partner_country_id, frame[k].eci_x, frame[k].eci_y>> :
        k \in 1..Len(frame)}

\* each trade row of the merge on index with the partner eci it is paired with
pairs_on_index(frame) ==
    {<<frame[k].country_id, frame[k].index, frame[k].eci_x, frame[k].eci_y>> :
        k \in 1..Len(frame)}

\* C12: the left merge on index gives the same result as the left merge on
\* columns: both results have one row per row of trade_data, and every trade row
\* is paired with the same partner eci value, or with a missing value when no
\* partner row matches.
C12_MergeOnIndexSameAsOnColumns ==
    [][(nb = "DaskDataFrames" /\ pc = "merged_on_columns" /\ pc' = "merged_on_index") =>
          /\ pairs_on_index(merged') = pairs_on_columns(merged)
          /\ Len(merged') = Len(merged)
          /\ Len(merged') = Len(trade_data)
          /\ \A k \in 1..Len(merged') :
                merged'[k].eci_y.na <=>
                   (\A j \in 1..Len(trade_data) :
                        trade_data[j].country_id # merged'[k].index)]_vars

\* both merges are done on a frame in which one row has a partner and another one
\* has none, after duplicates of country_id were dropped
C12_Witness ==
    /\ nb = "DaskDataFrames" /\ pc = "merged_on_index"
    /\ Len(trade_data) < Len(trade_data_2022)
    /\ \E j, k \in 1..Len(merged) :
          /\ merged[j].eci_y = NaN
          /\ merged[k].eci_y # NaN /\ merged[k].eci_y.v # merged[k].eci_x

\* C13: after pd_profile_func, dd_profile_func and then the clean-up cell have
\* run in that order, neither trade_merged_pd.csv nor trade_merged_dd.csv exists
\* under DATA_DIR and the clean-up cell has completed without an error.
C13_CleanUpRemovesBoth ==
    (nb = "DaskDataFrames" /\ pc = "done") =>
        /\ "trade_merged_pd.csv" \notin DOMAIN DATA_DIR
        /\ "trade_merged_dd.csv" \notin DOMAIN DATA_DIR
        /\ os_error = <<>>

C8_InvalidUpdateRaises ==
    /\ [][(nb = "ParamToolsDemo" /\ pc = "usa_params" /\ pc' = "updated") =>
             IF revision'[2] \in tax_func_type_choices
             THEN raised' = <<>> /\ tax_func_type' = revision'[2]
             ELSE /\ Len(raised') = 1
                  /\ raised'[1].ename = "ValidationError"
                  /\ raised'[1].param = "tax_func_type"
                  /\ tax_func_type' = tax_func_type]_vars
    /\ [](nb = "ParamToolsDemo" => tax_func_type \in tax_func_type_choices \cup {""})

\* the update with "whatever" has raised the ValidationError
C8_Witness ==
    /\ nb = "ParamToolsDemo" /\ pc = "updated"
    /\ revision = <<"tax_func_type", "whatever">>
    /\ raised # <<>> /\ raised[1].ename = "ValidationError"
    /\ tax_func_type \in tax_func_type_choices

\* C9: the built TaxParams instance has a standard_deduction value for every
\* year from 2013 to 2033 and for both marital statuses (21 rows of 2 values), and
\* every value given in defaults (2013, 2018 and 2026, single and joint) stands
\* unchanged at its year.
C9_AllYearsExplicitKept ==
    (nb = "ParamToolsDemo" /\ pc = "done") =>
        /\ DOMAIN standard_deduction = YearMin..YearMax
        /\ Cardinality(DOMAIN standard_deduction) = 21
        /\ \A y \in YearMin..YearMax : Len(standard_deduction[y]) = 2
        /\ \A y \in {2013, 2018, 2026} :
              /\ standard_deduction[y][1] = defaults_value[y].single
              /\ standard_deduction[y][2] = defaults_value[y].joint
        /\ \A y \in {2013, 2018, 2026} :
              standard_deduction[y] = shown_standard_deduction[y]

\* the instance is built, and the years after a given value were extended from it
C9_Witness ==
    /\ nb = "ParamToolsDemo" /\ pc = "done"
    /\ standard_deduction[2018] = <<1200000, 2400000>>
    /\ standard_deduction[2019] = <<1224000, 2448000>>
    /\ standard_deduction[2026] = <<768500, 1536900>>

\* C10: every year y in 2014..2033 without a given value holds, for each marital
\* status, the value of year y - 1 multiplied by (1 + index_rates[y - 1]) and
\* rounded to two decimals (2014 single = 6190.28, 2019 single = 12240.00), and
\* the values are the ones the notebook shows.
C10_ExtendedByIndexRate ==
    (nb = "ParamToolsDemo" /\ pc = "done") =>
        /\ \A y \in (YearMin + 1)..YearMax : \A m \in 1..2 :
              y \notin {2013, 2018, 2026} =>
                 LET prev == standard_deduction[y - 1][m]
                     got == standard_deduction[y][m]
                     rate == index_rates[y - 1]
                     q == prev \div 10000
                     \* 10000 * (got - prev * (1 + rate / 10000)), with
                     \* prev = q * 10000 + prev % 10000
                     off == (got - prev - q * rate) * 10000 - (prev % 10000) * rate
                 IN  \* got is the multiple of 0.01 nearest to the exact product
                     2 * off <= 10000 /\ -2 * off <= 10000
        /\ standard_deduction[2014][1] = 619028
        /\ standard_deduction[2019][1] = 1224000
        /\ standard_deduction = shown_standard_deduction

\* the instance is built with extended years whose exact product needed rounding
C10_Witness ==
    /\ nb = "ParamToolsDemo" /\ pc = "done"
    /\ standard_deduction[2015][1] = 628871
    /\ (standard_deduction[2014][1] % 10000) * index_rates[2014] % 10000 # 0
    /\ standard_deduction[2033] = <<881899, 1763684>>

\* C14: usa_params and zaf_params are independent copies of the default OG-Core
\* parameters: they and og_params are three different objects, and after the two
\* country updates and after every later update of usa_params, og_params still
\* holds the defaults, zaf_params holds the values of ZAF, and usa_params holds
\* the values of the USA in every parameter that was not updated since.
C14_CopiesAreIndependent ==
    (nb = "ParamToolsDemo" /\ og_params # 0) =>
        /\ Cardinality({og_params, usa_params, zaf_params}) = 3
        /\ heap[og_params] = og_defaults
        /\ heap[zaf_params] = zaf_json
        /\ heap[usa_params].initial_debt_ratio = usa_json.initial_debt_ratio
        /\ pc \in {"og_params", "linspace"} => heap[usa_params] = usa_json
        /\ pc = "og_params" =>
              printed = <<usa_json.initial_debt_ratio, zaf_json.initial_debt_ratio,
                          usa_json.cit_rate, zaf_json.cit_rate>>

\* the loop over the cit rates has updated usa_params to a value that neither the
\* defaults nor ZAF have, and the defaults differ from the values of both countries
C14_Witness ==
    /\ nb = "ParamToolsDemo" /\ pc = "usa_params"
    /\ heap[usa_params].cit_rate = 4000
    /\ heap[og_params].cit_rate = 2100 /\ heap[zaf_params].cit_rate = 2700
    /\ heap[og_params].initial_debt_ratio \notin
          {usa_json.initial_debt_ratio, zaf_json.initial_debt_ratio}

\* C15: for each r of the ten values from 0.1 to 0.4, after
\* usa_params.update_specifications({'cit_rate': [[r]]}) the value
\* usa_params.cit_rate[0][0] that is printed equals r, no error is raised, and
\* each update replaces the value the one before set: after the loop the value is
\* 0.4.
C15_UpdateReadBack ==
    (nb = "ParamToolsDemo" /\ pc \in {"cit_rate", "usa_params"}) =>
        /\ Len(printed) = r_pos
        /\ \A i \in 1..r_pos : printed[i] = cit_rates[i - 1]
        /\ r_pos >= 1 => heap[usa_params].cit_rate = cit_rates[r_pos - 1]
        /\ raised = <<>>
        /\ pc = "usa_params" => (r_pos = 10 /\ heap[usa_params].cit_rate = 4000)
        /\ cit_rates[0] = 1000 /\ cit_rates[9] = 4000

\* the loop is past its second value, one that is not a multiple of 0.01, and
\* the value set by the first pass is replaced
C15_Witness ==
    /\ nb = "ParamToolsDemo" /\ pc = "cit_rate" /\ r_pos = 2
    /\ printed = <<1000, 1333>>
    /\ heap[usa_params].cit_rate = 1333

\* C17: the code cells of ParamToolsDemo run in document order in a fresh kernel
\* read only names that an earlier cell, or the same cell earlier, has imported
\* or bound: no cell ends in a NameError.
C17_NoUndefinedName ==
    nb = "ParamToolsDemo" => name_errors = <<>>

====
